---- MODULE Spec2Model ----
(***************************************************************************)
(* sia_scout: the concurrent scanning pipeline (collector.py), the API     *)
(* gateway's response classification (client.py) and the SQLite store      *)
(* (database.py), modelled as a state machine.                             *)
(*                                                                         *)
(* An IPv4 network is a record [addr, plen]; addr is the 32-bit network    *)
(* address as an integer.  A queue item is the canonical string of a       *)
(* network, modelled as the pair <<addr, plen>> the string spells, or None.*)
(***************************************************************************)
EXTENDS Integers, Sequences, FiniteSets, TLC

VARIABLES
    targets,    \* the lines of config.TARGET_FILE
    run,        \* number of the current process run (also the coarse clock)
    mode,       \* "live" | "history" (args.action of this run)
    phase,      \* the process: "main" | "created" | "gather" | "left"
    endedBy,    \* how the process ended: "none" | "normal" | "429" | "error" | "interrupt" | "auth"
    exitCode,   \* process exit status, -1 while running
    session,    \* client.session: "none" | "open" | "closed"
    ppc,        \* producer task: "idle" | "loop" | "checking" | "closing" | "done" | "cancelled"
    pidx,       \* producer: index of the next sub-block of the expansion
    queue,      \* self.queue
    sem,        \* self.semaphore._value
    db_lock,    \* holders of self.db_lock: {} when free; 0 is the producer
    wpc,        \* worker task position
    wcur,       \* worker: subnet_str being processed, or None
    wresp,      \* worker: value returned by get_cidr_listings
    rate_limited, \* a request of this run has been answered 429
    wrows,      \* worker: rows its insert_hits call added for the current block
    hits,       \* table hits, rows in rowid order
    scanned,    \* table scanned_cidrs, rows in rowid order
    enqueued,   \* blocks the producer has put on the queue in this run
    queried,    \* per block, API requests started in this run
    done,       \* blocks for which a worker reached task_done in this run: <<block, status, rows>>
    scannedAt0, \* scanned_cidrs as it was when this run started
    hitsAt0,    \* hits as it was when this run started
    prevEnd,    \* endedBy of the previous run
    prevMode,   \* mode of the previous run
    net,        \* expansion harness: the input line
    subs,       \* expansion harness: the sub-blocks the producer makes of net
    dbres,      \* storage harness: result of the last storage call
    token_file, \* the file config.TOKEN_FILE
    clock,      \* time.time() when initial_auth runs
    token,      \* client.token
    logins,     \* login requests sent
    token_writes, \* times the token file has been opened for writing
    login,      \* the reply to the login request, if one was sent
    params      \* self.params: the keywords the collector adds to every query

vars == <<targets, run, mode, phase, endedBy, exitCode, session, ppc, pidx,
          queue, sem, db_lock, wpc, wcur, wresp, rate_limited, wrows, hits,
          scanned, enqueued, queried, done, scannedAt0, hitsAt0, prevEnd,
          prevMode, net, subs, dbres, token_file, clock, token, logins,
          token_writes, login, params>>

(***************************************************************************)
(* Bounds of the model.                                                    *)
(***************************************************************************)
W == 2              \* concurrency (config.CONCURRENCY_LIMIT is 20)
MaxRuns == 2        \* process runs against the same database
MaxRows == 3        \* rows a table of the storage harness may hold
MaxBatch == 3       \* records in one insert_hits batch of the storage harness
MaxSpan == 3        \* expansion harness: inputs down to prefix 24 - MaxSpan
MaxBase == 8        \* expansion harness: inputs start below 2 * MaxBase /24 blocks

(***************************************************************************)
(* Program constants.                                                      *)
(***************************************************************************)
G == 24             \* new_prefix of the producers' subnets() call
MaxPrefixLen == 32  \* IPv4Network._max_prefixlen

None == "None"            \* Python's None where the model holds a string
NoneItem == <<>>          \* None as a queue item or current block
NoResponse == [none |-> TRUE]        \* None as a response
NULL == "NULL"            \* SQL NULL

RECURSIVE Pow2(_)
Pow2(n) == IF n = 0 THEN 1 ELSE 2 * Pow2(n - 1)

Workers == 1..W

(***************************************************************************)
(* Target list and block expansion (collector.py, producers).              *)
(* A line of the target file is [kind, addr, plen]: kind "blank",          *)
(* "comment" (starts with '#'), "text" (not a CIDR at all) or "cidr"       *)
(* (addr/plen as written, host bits possibly set).                         *)
(***************************************************************************)
ValueError == [raised |-> "ValueError"]

\* ipaddress.ip_network(cidr_str), strict: host bits set raise ValueError
ip_network(line) ==
    IF line.kind = "cidr" /\ line.plen \in 0..MaxPrefixLen
          /\ line.addr % Pow2(MaxPrefixLen - line.plen) = 0
    THEN [addr |-> line.addr, plen |-> line.plen]
    ELSE ValueError

\* the sequence range(start, end, step) walks through
Range(start, end, step) ==
    [i \in 1..((end - start + step - 1) \div step) |-> start + (i - 1) * step]

\* a slip in the step: hostmask >> diff instead of (hostmask + 1) >> diff
subnets_hostmask_step(network, new_prefix) ==
    LET diff  == new_prefix - network.plen
        start == network.addr
        end   == network.addr + Pow2(MaxPrefixLen - network.plen)
        step  == (Pow2(MaxPrefixLen - network.plen) - 1) \div Pow2(diff)
        addrs == Range(start, end, step)
    IN  [i \in DOMAIN addrs |-> [addr |-> addrs[i], plen |-> new_prefix]]

\* network.subnets(new_prefix=...) for a network shorter than new_prefix
subnets(network, new_prefix) ==
    LET diff  == new_prefix - network.plen
        start == network.addr
        end   == network.addr + Pow2(MaxPrefixLen - network.plen)
        step  == Pow2(MaxPrefixLen - network.plen) \div Pow2(diff)
        addrs == Range(start, end, step)
    IN  [i \in DOMAIN addrs |-> [addr |-> addrs[i], plen |-> new_prefix]]

\* an expansion that brings a finer block up to the /24 that holds it
Subnets_widen_to_G(network) ==
    IF network.plen < G THEN subnets(network, G)
    ELSE <<[addr |-> network.addr - (network.addr % Pow2(MaxPrefixLen - G)),
            plen |-> G]>>

\* list(network.subnets(new_prefix=24)) if network.prefixlen < 24 else [network]
Subnets(network) ==
    IF network.plen < G THEN subnets(network, G) ELSE <<network>>

\* str(subnet): the canonical text of a network, as the pair it spells
str(network) == <<network.addr, network.plen>>

\* the sub-blocks one line contributes: none for a blank, comment or
\* malformed line (continue / except ValueError)
LineBlocks(line) ==
    IF line.kind \in {"blank", "comment"} THEN <<>>
    ELSE IF ip_network(line) = ValueError THEN <<>>
    ELSE LET sn == Subnets(ip_network(line))
         IN  [i \in DOMAIN sn |-> str(sn[i])]

\* a loop whose try sits around the for: the first malformed line ends it
RECURSIVE Work_ends_at_malformed(_)
Work_ends_at_malformed(lines) ==
    IF lines = <<>> THEN <<>>
    ELSE IF Head(lines).kind \in {"cidr", "text"} /\ ip_network(Head(lines)) = ValueError
    THEN <<>>
    ELSE LineBlocks(Head(lines)) \o Work_ends_at_malformed(Tail(lines))

\* the sub-blocks of the whole file, in the order the producer meets them
RECURSIVE Work(_)
Work(lines) ==
    IF lines = <<>> THEN <<>>
    ELSE LineBlocks(Head(lines)) \o Work(Tail(lines))

\* the addresses of a network
Addresses(network) ==
    network.addr .. (network.addr + Pow2(MaxPrefixLen - network.plen) - 1)

(***************************************************************************)
(* Storage (database.py).  A table is the sequence of its rows in rowid    *)
(* order.  Of the 19 columns of hits the model keeps the three key columns *)
(* and one payload column.                                                 *)
(***************************************************************************)
DB_COLUMNS == {"ipaddress", "listed", "rule", "seen"}

\* for key in DB_COLUMNS: hit.setdefault(key, None)
setdefault(hit) ==
    [k \in DB_COLUMNS |-> IF k \in DOMAIN hit THEN hit[k] ELSE NULL]

\* PRIMARY KEY (ipaddress, listed, rule) of an ordinary rowid table: the
\* key columns accept NULL, and SQL's NULL never equals NULL
KeyConflict(row, new) ==
    /\ row.ipaddress = new.ipaddress /\ new.ipaddress # NULL
    /\ row.listed = new.listed /\ new.listed # NULL
    /\ row.rule = new.rule /\ new.rule # NULL

\* INSERT OR IGNORE INTO hits ... of one parameter set
InsertOrIgnore(tbl, row) ==
    IF \E i \in DOMAIN tbl : KeyConflict(tbl[i], row) THEN tbl
    ELSE Append(tbl, row)

RECURSIVE executemany(_, _)
executemany(tbl, rows) ==
    IF rows = <<>> THEN tbl
    ELSE executemany(InsertOrIgnore(tbl, Head(rows)), Tail(rows))

\* insert_hits(db, hits): the table afterwards and the value returned
insert_hits(tbl, hs) ==
    IF hs = <<>> THEN [tbl |-> tbl, count |-> 0]
    ELSE [tbl |-> executemany(tbl, hs), count |-> Len(hs)]

\* a lookup that never finds the row
check_if_scanned_never(tbl, cidr) == FALSE

\* check_if_scanned(db, cidr_str): SELECT 1 FROM scanned_cidrs WHERE cidr = ?
check_if_scanned(tbl, cidr) == \E i \in DOMAIN tbl : tbl[i].cidr = cidr

\* scanned_cidrs: cidr TEXT PRIMARY KEY
CidrConflict(tbl, cidr) == \E i \in DOMAIN tbl : tbl[i].cidr = cidr

\* mark_as_scanned(db, cidr_str, timestamp): a plain INSERT into a table
\* whose cidr column is the PRIMARY KEY
mark_as_scanned(tbl, cidr, timestamp) ==
    IF CidrConflict(tbl, cidr)
    THEN [tbl |-> tbl, raised |-> "IntegrityError"]
    ELSE [tbl |-> Append(tbl, [cidr |-> cidr, scanned_at |-> timestamp]),
          raised |-> None]

\* the tables initialize_database creates (CREATE TABLE IF NOT EXISTS)
Tables == {"hits", "scanned_cidrs"}

(***************************************************************************)
(* Inputs of the pipeline.                                                 *)
(***************************************************************************)
Blank   == [kind |-> "blank", addr |-> 0, plen |-> 0]
Comment == [kind |-> "comment", addr |-> 0, plen |-> 0]
Text    == [kind |-> "text", addr |-> 0, plen |-> 0]
Cidr(a, p) == [kind |-> "cidr", addr |-> a, plen |-> p]

\* target files: a /23 under a comment; one /24 twice around a malformed
\* line; a /23 with host bits set, a blank line and a /24; a /25 and the
\* /24 that holds it
TargetFiles ==
    { <<Comment, Cidr(0, 23)>>,
      <<Cidr(0, 24), Text, Cidr(0, 24)>>,
      <<Cidr(256, 23), Blank, Cidr(256, 24)>>,
      <<Cidr(0, 25), Cidr(0, 24)>> }

\* records of the remote API (column values as strings): one address
\* under two rules; neither carries a "seen" key
H1 == [ipaddress |-> "a", listed |-> "t1", rule |-> "r1"]
H2 == [ipaddress |-> "a", listed |-> "t1", rule |-> "r2"]

\* JSON bodies of a 200 response: no results key, empty results, and two
\* records of which the first comes twice
Bodies ==
    { [code |-> 200],
      [code |-> 200, results |-> <<>>],
      [code |-> 200, results |-> <<H1, H2, H1>>] }

\* what a request can come back with: an HTTP status (with a body when it
\* is 200) or a network-level aiohttp.ClientError
Replies ==
    {[status |-> "200", body |-> b] : b \in Bodies}
    \cup {[status |-> st, body |-> NoResponse] : st \in {"404", "429", "401", "403", "500"}}
    \cup {[status |-> "ClientError", body |-> NoResponse]}

SystemExit == [exit |-> 1]

\* def get_cidr_listings(self, cidr_str, dataset, mode, type, limit): the
\* parameters after self; none has a default and there is no **kwargs
Signature == {"cidr_str", "dataset", "mode", "type", "limit"}

\* the keywords of the workers' call: cidr_str and **self.params, and in
\* the history worker since and until as well
CallKeywords(m, ps) ==
    {"cidr_str"} \cup ps \cup (IF m = "history" THEN {"since", "until"} ELSE {})

\* Python binds the call only when every parameter is given and every
\* keyword names a parameter; otherwise the call raises TypeError
Binds(keywords) == keywords = Signature

\* a gateway that takes an authentication failure for fatal
get_cidr_listings_auth_failure_exits(reply) ==
    IF reply.status = "200" THEN reply.body
    ELSE IF reply.status = "404" THEN [code |-> 404, results |-> <<>>]
    ELSE IF reply.status \in {"429", "401", "403"} THEN SystemExit
    ELSE NoResponse

\* a gateway that answers 429 like any other unexpected status
get_cidr_listings_429_as_transient(reply) ==
    IF reply.status = "200" THEN reply.body
    ELSE IF reply.status = "404" THEN [code |-> 404, results |-> <<>>]
    ELSE NoResponse

\* AsyncSiaClient.get_cidr_listings: the value returned, or SystemExit
get_cidr_listings(reply) ==
    IF reply.status = "200" THEN reply.body
    ELSE IF reply.status = "404" THEN [code |-> 404, results |-> <<>>]
    ELSE IF reply.status = "429" THEN SystemExit
    ELSE NoResponse

\* a test for the key alone: if response and 'results' in response
HasResults_key_present(response) ==
    /\ response # NoResponse
    /\ "results" \in DOMAIN response

\* if response and response.get('results'):
HasResults(response) ==
    /\ response # NoResponse
    /\ "results" \in DOMAIN response
    /\ response.results # <<>>

\* the hits handed to the insert: every record completed by setdefault
Hits(response) ==
    [i \in DOMAIN response.results |-> setdefault(response.results[i])]

\* int(time.time()): the clock, as coarse as one tick per process run
Now == run

BlockSet(lines) == {Work(lines)[i] : i \in DOMAIN Work(lines)}

\* for _ in range(self.semaphore._value): await self.queue.put(None)
Sentinels(value) == [i \in 1..value |-> NoneItem]

(***************************************************************************)
(* Initial state: the database just initialised, the collector just        *)
(* constructed.                                                            *)
(***************************************************************************)
Fresh ==
    /\ mode = None
    /\ phase = "created"
    /\ endedBy = "none"
    /\ exitCode = -1
    /\ session = "none"
    /\ ppc = "idle"
    /\ pidx = 1
    /\ queue = <<>>
    /\ sem = W
    /\ db_lock = {}
    /\ wpc = [w \in Workers |-> "idle"]
    /\ wcur = [w \in Workers |-> NoneItem]
    /\ wresp = [w \in Workers |-> NoResponse]
    /\ rate_limited = FALSE
    /\ wrows = [w \in Workers |-> 0]
    /\ enqueued = <<>>
    /\ done = {}

PipelineInit ==
    /\ targets \in TargetFiles
    /\ run = 1
    /\ Fresh
    /\ queried = [b \in BlockSet(targets) |-> 0]
    /\ hits = <<>>
    /\ scanned = <<>>
    /\ scannedAt0 = <<>>
    /\ hitsAt0 = <<>>
    /\ prevEnd = "none"
    /\ prevMode = None

NoCall == [op |-> "none", raised |-> None, count |-> 0, before |-> 0,
           arg |-> <<>>]

\* the token file: missing, not JSON, or a JSON object
AbsentFile == [kind |-> "absent"]
GarbageFile == [kind |-> "garbage"]
JsonFile(data) == [kind |-> "json", data |-> data]

NoLogin == [status |-> "none", body |-> NoResponse]

\* AsyncSiaClient.__init__, before any authentication
ClientInit ==
    /\ token_file = AbsentFile
    /\ clock = 0
    /\ token = None
    /\ logins = 0
    /\ token_writes = 0
    /\ login = NoLogin

\* a client that has authenticated: check_limits_sync has run, the token
\* is set and the token file holds it
Authenticated ==
    /\ token_file = JsonFile([token |-> "old", expires |-> 300])
    /\ clock = 100
    /\ token = "old"
    /\ logins = 0
    /\ token_writes = 0
    /\ login = NoLogin

authvars == <<token_file, clock, token, logins, token_writes, login>>

\* query_params as main_async builds it, and a dictionary that names
\* every parameter of get_cidr_listings
MainParams == {"dataset", "mode", "limit"}
FullParams == {"dataset", "mode", "type", "limit"}

\* the collector is constructed with either
ParamSets == {MainParams, FullParams}

Init ==
    /\ PipelineInit
    /\ net = Blank
    /\ subs = <<>>
    /\ dbres = NoCall
    /\ Authenticated
    /\ params \in ParamSets

harness == <<net, subs, dbres, token_file, clock, token, logins,
             token_writes, login, params>>
runvars == <<targets, run, prevEnd, prevMode, scannedAt0, hitsAt0>>

(***************************************************************************)
(* run_scan (collector.py 122-142) and the process around it.              *)
(***************************************************************************)
\* a run_scan whose close_session sits after the gather, not in a finally
run_scan_close_after_gather(path) ==
    IF path = "normal" THEN "closed" ELSE "open"

\* client.session once run_scan is left along path: the finally clause
\* runs close_session on every path
run_scan_finally(path) == "closed"

\* the process ends: run_scan is left through its finally clause and
\* asyncio.run cancels every task that has not finished
ProcessEnds(path, code) ==
    /\ phase' = "left"
    /\ endedBy' = path
    /\ exitCode' = code
    /\ session' = run_scan_finally(path)
    /\ ppc' = IF ppc = "done" THEN ppc ELSE "cancelled"
    /\ wpc' = [w \in Workers |->
                 IF wpc[w] \in {"exited", "failed"} THEN wpc[w] ELSE "cancelled"]

\* run_scan up to the gather: create_session, one producer task and
\* semaphore._value worker tasks.  create_session calls initial_auth only
\* when client.token is None; that is the case only after initial_auth
\* took a file without a token, and it then takes the same file again.
run_scan_start(m) ==
    /\ phase = "created"
    /\ mode' = m
    /\ session' = "open"
    /\ phase' = "gather"
    /\ ppc' = IF m = "history" THEN "history"
              ELSE IF Work(targets) = <<>> THEN "closing" ELSE "loop"
    /\ wpc' = [w \in 1..sem |-> "get"]
    /\ UNCHANGED <<endedBy, exitCode, pidx, queue, sem, db_lock, wcur, wresp,
                   rate_limited, wrows, hits, scanned, enqueued, queried, done>>
    /\ UNCHANGED runvars /\ UNCHANGED harness

\* the gather returns or raises: every task has finished, or a worker has
\* raised an exception nothing caught
run_scan_end ==
    /\ phase = "gather"
    /\ \/ /\ \E w \in Workers : wpc[w] = "failed"
          /\ ProcessEnds("error", 1)
       \/ /\ ppc = "done"
          /\ \A w \in Workers : wpc[w] = "exited"
          /\ ProcessEnds("normal", 0)
    /\ UNCHANGED <<mode, pidx, queue, sem, db_lock, wcur, wresp, rate_limited,
                   wrows, hits, scanned, enqueued, queried, done>>
    /\ UNCHANGED runvars /\ UNCHANGED harness

\* KeyboardInterrupt while the scan runs (main.py 80-83).  Nothing of the
\* interrupted process is looked at again, so what it had in memory is
\* dropped with it; the database stays as it is.
interrupt ==
    /\ phase = "gather"
    /\ ProcessEnds("interrupt", 0)
    /\ pidx' = 1
    /\ queue' = <<>>
    /\ sem' = W
    /\ db_lock' = {}
    /\ wcur' = [w \in Workers |-> NoneItem]
    /\ wresp' = [w \in Workers |-> NoResponse]
    /\ rate_limited' = FALSE
    /\ wrows' = [w \in Workers |-> 0]
    /\ enqueued' = <<>>
    /\ done' = {}
    /\ queried' = [b \in BlockSet(targets) |-> 0]
    /\ UNCHANGED <<mode, hits, scanned>>
    /\ UNCHANGED runvars /\ UNCHANGED harness

\* a start that creates its tables anew (DROP TABLE before CREATE TABLE)
restart_recreates_tables ==
    /\ phase = "left"
    /\ run < MaxRuns
    /\ run' = run + 1
    /\ prevEnd' = endedBy
    /\ prevMode' = mode
    /\ scannedAt0' = scanned
    /\ hitsAt0' = hits
    /\ mode' = None
    /\ phase' = "created"
    /\ endedBy' = "none"
    /\ exitCode' = -1
    /\ session' = "none"
    /\ ppc' = "idle"
    /\ pidx' = 1
    /\ queue' = <<>>
    /\ sem' = W
    /\ db_lock' = {}
    /\ wpc' = [w \in Workers |-> "idle"]
    /\ wcur' = [w \in Workers |-> NoneItem]
    /\ wresp' = [w \in Workers |-> NoResponse]
    /\ rate_limited' = FALSE
    /\ wrows' = [w \in Workers |-> 0]
    /\ enqueued' = <<>>
    /\ done' = {}
    /\ queried' = [b \in BlockSet(targets) |-> 0]
    /\ hits' = <<>>
    /\ scanned' = <<>>
    /\ UNCHANGED targets
    /\ UNCHANGED harness

\* the operator starts the program again on the same database and targets
restart ==
    /\ phase = "left"
    /\ run < MaxRuns
    /\ run' = run + 1
    /\ prevEnd' = endedBy
    /\ prevMode' = mode
    /\ scannedAt0' = scanned
    /\ hitsAt0' = hits
    /\ mode' = None
    /\ phase' = "created"
    /\ endedBy' = "none"
    /\ exitCode' = -1
    /\ session' = "none"
    /\ ppc' = "idle"
    /\ pidx' = 1
    /\ queue' = <<>>
    /\ sem' = W
    /\ db_lock' = {}
    /\ wpc' = [w \in Workers |-> "idle"]
    /\ wcur' = [w \in Workers |-> NoneItem]
    /\ wresp' = [w \in Workers |-> NoResponse]
    /\ rate_limited' = FALSE
    /\ wrows' = [w \in Workers |-> 0]
    /\ enqueued' = <<>>
    /\ done' = {}
    /\ queried' = [b \in BlockSet(targets) |-> 0]
    /\ UNCHANGED <<targets, hits, scanned>>
    /\ UNCHANGED harness

(***************************************************************************)
(* Producers (collector.py 31-50, 81-93).                                  *)
(***************************************************************************)
\* _live_producer: async with self.db_lock, before check_if_scanned
live_producer_lock ==
    /\ ppc = "loop"
    /\ db_lock = {}
    /\ db_lock' = {0}
    /\ ppc' = "checking"
    /\ UNCHANGED <<mode, phase, endedBy, exitCode, session, pidx, queue, sem,
                   wpc, wcur, wresp, rate_limited, wrows, hits, scanned, enqueued,
                   queried, done>>
    /\ UNCHANGED runvars /\ UNCHANGED harness

\* _live_producer: check_if_scanned, queue.put unless cached, lock released
live_producer_check ==
    /\ ppc = "checking"
    /\ LET subnet_str == Work(targets)[pidx]
       IN  IF ~ check_if_scanned(scanned, subnet_str)
           THEN /\ queue' = Append(queue, subnet_str)
                /\ enqueued' = Append(enqueued, subnet_str)
           ELSE UNCHANGED <<queue, enqueued>>
    /\ db_lock' = {}
    /\ pidx' = pidx + 1
    /\ ppc' = IF pidx + 1 > Len(Work(targets)) THEN "closing" ELSE "loop"
    /\ UNCHANGED <<mode, phase, endedBy, exitCode, session, sem, wpc, wcur,
                   wresp, rate_limited, wrows, hits, scanned, queried, done>>
    /\ UNCHANGED runvars /\ UNCHANGED harness

\* _live_producer line 50, reached after the database connection closed
live_producer_stop ==
    /\ ppc = "closing"
    /\ queue' = queue \o Sentinels(sem)
    /\ ppc' = "done"
    /\ UNCHANGED <<mode, phase, endedBy, exitCode, session, pidx, sem, db_lock,
                   wpc, wcur, wresp, rate_limited, wrows, hits, scanned, enqueued,
                   queried, done>>
    /\ UNCHANGED runvars /\ UNCHANGED harness

\* a historical producer that leaves out the blocks of the scan cache
history_producer_skips_cached ==
    /\ ppc = "history"
    /\ LET fresh == SelectSeq(Work(targets),
                              LAMBDA b : ~ check_if_scanned(scanned, b))
       IN  /\ queue' = queue \o fresh \o Sentinels(sem)
           /\ enqueued' = enqueued \o fresh
    /\ pidx' = Len(Work(targets)) + 1
    /\ ppc' = "done"
    /\ UNCHANGED <<mode, phase, endedBy, exitCode, session, sem, db_lock, wpc,
                   wcur, wresp, rate_limited, wrows, hits, scanned, queried, done>>
    /\ UNCHANGED runvars /\ UNCHANGED harness

\* _history_producer: no await in it suspends (the queue is unbounded), so
\* the whole coroutine is one step
history_producer ==
    /\ ppc = "history"
    /\ queue' = queue \o Work(targets) \o Sentinels(sem)
    /\ enqueued' = enqueued \o Work(targets)
    /\ pidx' = Len(Work(targets)) + 1
    /\ ppc' = "done"
    /\ UNCHANGED <<mode, phase, endedBy, exitCode, session, sem, db_lock, wpc,
                   wcur, wresp, rate_limited, wrows, hits, scanned, queried, done>>
    /\ UNCHANGED runvars /\ UNCHANGED harness

(***************************************************************************)
(* Workers (collector.py 52-78, 95-119).  Between two suspension points a  *)
(* coroutine runs alone, so each action is one such stretch.               *)
(***************************************************************************)
\* a worker whose mark sits in the else branch of "if response"
MarksScanned_only_without_hits(response) ==
    ~ (/\ response # NoResponse
       /\ "results" \in DOMAIN response
       /\ response.results # <<>>)

\* a worker that marks a block only when the gateway returned a response
MarksScanned_only_with_response(response) == response # NoResponse

\* _live_worker 75-76: the mark sits outside the "if response" block, so
\* it is made whatever the response was
MarksScanned(response) == TRUE

\* a worker that releases its permit before the request is answered
InFlightPermits_released_early(w) == 0

\* permits worker w takes with it into the request (async with self.semaphore)
InFlightPermits(w) == 1

\* a worker that keeps the stop marker it took: break without put_nowait
worker_get_keeps_marker(w) ==
    /\ phase = "gather"
    /\ wpc[w] = "get"
    /\ queue # <<>>
    /\ LET subnet_str == Head(queue)
       IN  IF subnet_str = NoneItem
           THEN /\ queue' = Tail(queue)
                /\ wpc' = [wpc EXCEPT ![w] = "exited"]
                /\ UNCHANGED <<sem, wcur, queried>>
           ELSE IF ~ Binds(CallKeywords(mode, params))
           THEN /\ sem > 0
                /\ queue' = Tail(queue)
                /\ wcur' = [wcur EXCEPT ![w] = subnet_str]
                /\ wpc' = [wpc EXCEPT ![w] = "failed"]
                /\ UNCHANGED <<sem, queried>>
           ELSE /\ sem > 0
                /\ queue' = Tail(queue)
                /\ sem' = sem - InFlightPermits(w)
                /\ wcur' = [wcur EXCEPT ![w] = subnet_str]
                /\ queried' = [queried EXCEPT ![subnet_str] = @ + 1]
                /\ wpc' = [wpc EXCEPT ![w] = "inflight"]
    /\ UNCHANGED <<mode, phase, endedBy, exitCode, session, ppc, pidx, db_lock,
                   wresp, rate_limited, wrows, hits, scanned, enqueued, done>>
    /\ UNCHANGED runvars /\ UNCHANGED harness

\* queue.get(); a stop marker is pushed back and ends the worker; otherwise
\* the permit is taken (with W workers and W permits it is never awaited)
\* and the request goes out, unless the call to get_cidr_listings does not
\* bind: the TypeError leaves the semaphore block and ends the worker
worker_get(w) ==
    /\ phase = "gather"
    /\ wpc[w] = "get"
    /\ queue # <<>>
    /\ LET subnet_str == Head(queue)
       IN  IF subnet_str = NoneItem
           THEN /\ queue' = Append(Tail(queue), NoneItem)
                /\ wpc' = [wpc EXCEPT ![w] = "exited"]
                /\ UNCHANGED <<sem, wcur, queried>>
           ELSE IF ~ Binds(CallKeywords(mode, params))
           THEN /\ sem > 0
                /\ queue' = Tail(queue)
                /\ wcur' = [wcur EXCEPT ![w] = subnet_str]
                /\ wpc' = [wpc EXCEPT ![w] = "failed"]
                /\ UNCHANGED <<sem, queried>>
           ELSE /\ sem > 0
                /\ queue' = Tail(queue)
                /\ sem' = sem - InFlightPermits(w)
                /\ wcur' = [wcur EXCEPT ![w] = subnet_str]
                /\ queried' = [queried EXCEPT ![subnet_str] = @ + 1]
                /\ wpc' = [wpc EXCEPT ![w] = "inflight"]
    /\ UNCHANGED <<mode, phase, endedBy, exitCode, session, ppc, pidx, db_lock,
                   wresp, rate_limited, wrows, hits, scanned, enqueued, done>>
    /\ UNCHANGED runvars /\ UNCHANGED harness

\* the end of one loop iteration: permit released, queue.task_done()
TaskDone(w) ==
    /\ sem' = sem + InFlightPermits(w)
    /\ done' = done \cup {<<wcur[w], wresp[w], wrows[w]>>}
    /\ wcur' = [wcur EXCEPT ![w] = NoneItem]
    /\ wresp' = [wresp EXCEPT ![w] = NoResponse]
    /\ wrows' = [wrows EXCEPT ![w] = 0]
    /\ wpc' = [wpc EXCEPT ![w] = "get"]

\* an exception leaves the worker coroutine: the lock and the permit are
\* released by their async with blocks and the task ends with the exception
Raise(w) ==
    /\ sem' = sem + InFlightPermits(w)
    /\ db_lock' = {}
    /\ wpc' = [wpc EXCEPT ![w] = "failed"]

\* the request is answered; get_cidr_listings classifies the reply and the
\* worker goes on to the insert, to the mark, or (history) to task_done
worker_reply(w, reply) ==
    /\ phase = "gather"
    /\ wpc[w] = "inflight"
    /\ LET response == get_cidr_listings(reply)
       IN  IF response = SystemExit
           THEN /\ ProcessEnds("429", 1)
                /\ UNCHANGED <<sem, wcur, wresp, wrows, done>>
           ELSE IF HasResults(response)
           THEN /\ wresp' = [wresp EXCEPT ![w] = response]
                /\ wpc' = [wpc EXCEPT ![w] = "insert"]
                /\ UNCHANGED <<phase, endedBy, exitCode, session, ppc, sem,
                               wcur, wrows, done>>
           ELSE IF mode = "live"
           THEN /\ wresp' = [wresp EXCEPT ![w] = response]
                /\ wpc' = [wpc EXCEPT ![w] = "mark"]
                /\ UNCHANGED <<phase, endedBy, exitCode, session, ppc, sem,
                               wcur, wrows, done>>
           ELSE /\ sem' = sem + InFlightPermits(w)
                /\ done' = done \cup {<<wcur[w], response, 0>>}
                /\ wcur' = [wcur EXCEPT ![w] = NoneItem]
                /\ wpc' = [wpc EXCEPT ![w] = "get"]
                /\ UNCHANGED <<phase, endedBy, exitCode, session, ppc, wresp,
                               wrows>>
    /\ rate_limited' = (rate_limited \/ reply.status = "429")
    /\ UNCHANGED <<mode, pidx, queue, db_lock, hits, scanned, enqueued, queried>>
    /\ UNCHANGED runvars /\ UNCHANGED harness

\* async with self.db_lock, before the insert
worker_insert_lock(w) ==
    /\ phase = "gather"
    /\ wpc[w] = "insert"
    /\ db_lock = {}
    /\ db_lock' = {w}
    /\ wpc' = [wpc EXCEPT ![w] = "inserting"]
    /\ UNCHANGED <<mode, phase, endedBy, exitCode, session, ppc, pidx, queue,
                   sem, wcur, wresp, rate_limited, wrows, hits, scanned, enqueued,
                   queried, done>>
    /\ UNCHANGED runvars /\ UNCHANGED harness

\* _live_worker: database.insert_hits(db, hits), lock released
live_worker_insert(w) ==
    /\ phase = "gather"
    /\ mode = "live"
    /\ wpc[w] = "inserting"
    /\ LET r == insert_hits(hits, Hits(wresp[w]))
       IN  /\ hits' = r.tbl
           /\ wrows' = [wrows EXCEPT ![w] = Len(r.tbl) - Len(hits)]
    /\ db_lock' = {}
    /\ wpc' = [wpc EXCEPT ![w] = "mark"]
    /\ UNCHANGED <<mode, phase, endedBy, exitCode, session, ppc, pidx, queue,
                   sem, wcur, wresp, rate_limited, scanned, enqueued, queried, done>>
    /\ UNCHANGED runvars /\ UNCHANGED harness

\* _live_worker: async with self.db_lock, before mark_as_scanned
live_worker_mark_lock(w) ==
    /\ phase = "gather"
    /\ wpc[w] = "mark"
    /\ db_lock = {}
    /\ db_lock' = {w}
    /\ wpc' = [wpc EXCEPT ![w] = "marking"]
    /\ UNCHANGED <<mode, phase, endedBy, exitCode, session, ppc, pidx, queue,
                   sem, wcur, wresp, rate_limited, wrows, hits, scanned, enqueued,
                   queried, done>>
    /\ UNCHANGED runvars /\ UNCHANGED harness

\* _live_worker: mark_as_scanned, then lock and permit released and
\* task_done; an IntegrityError leaves the worker
live_worker_mark(w) ==
    /\ phase = "gather"
    /\ wpc[w] = "marking"
    /\ LET r == IF MarksScanned(wresp[w])
                THEN mark_as_scanned(scanned, wcur[w], Now)
                ELSE [tbl |-> scanned, raised |-> None]
       IN  /\ scanned' = r.tbl
           /\ IF r.raised # None
              THEN /\ Raise(w)
                   /\ UNCHANGED <<wcur, wresp, wrows, done>>
              ELSE /\ TaskDone(w)
                   /\ db_lock' = {}
    /\ UNCHANGED <<mode, phase, endedBy, exitCode, session, ppc, pidx, queue,
                   rate_limited, hits, enqueued, queried>>
    /\ UNCHANGED runvars /\ UNCHANGED harness

(***************************************************************************)
(* The pipeline.                                                           *)
(***************************************************************************)
Next ==
    \/ \E m \in {"live", "history"} : run_scan_start(m)
    \/ run_scan_end
    \/ interrupt
    \/ restart
    \/ live_producer_lock
    \/ live_producer_check
    \/ live_producer_stop
    \/ history_producer
    \/ \E w \in Workers : worker_get(w)
    \/ \E w \in Workers : \E reply \in Replies : worker_reply(w, reply)
    \/ \E w \in Workers : worker_insert_lock(w)
    \/ \E w \in Workers : live_worker_insert(w)
    \/ \E w \in Workers : live_worker_mark_lock(w)
    \/ \E w \in Workers : live_worker_mark(w)

Spec == Init /\ [][Next]_vars

\* the fairness asyncio gives: every task that can run is run, a request
\* is answered, and the FIFO lock reaches every waiter
Fairness ==
    /\ WF_vars(run_scan_end)
    /\ WF_vars(live_producer_check)
    /\ WF_vars(live_producer_stop)
    /\ WF_vars(history_producer)
    /\ SF_vars(live_producer_lock)
    /\ \A w \in Workers :
          /\ WF_vars(worker_get(w))
          /\ WF_vars(\E reply \in Replies : worker_reply(w, reply))
          /\ SF_vars(worker_insert_lock(w))
          /\ WF_vars(live_worker_insert(w))
          /\ SF_vars(live_worker_mark_lock(w))
          /\ WF_vars(live_worker_mark(w))

FairSpec == Spec /\ Fairness

(***************************************************************************)
(* The expansion on its own: one line in, its sub-blocks out.              *)
(***************************************************************************)
ExpandLines ==
    {Cidr(64 * k, p) : k \in 0..(8 * MaxBase - 1),
                       p \in (G - MaxSpan)..(G + 2)}

ExpandInit ==
    /\ PipelineInit
    /\ net \in ExpandLines
    /\ subs = <<>>
    /\ dbres = NoCall
    /\ ClientInit
    /\ params = MainParams

\* one pass of the producers' loop body over the line (collector.py 36-41)
expand ==
    /\ subs = <<>>
    /\ subs' = LineBlocks(net)
    /\ UNCHANGED <<targets, run, mode, phase, endedBy, exitCode, session, ppc,
                   pidx, queue, sem, db_lock, wpc, wcur, wresp, rate_limited, wrows,
                   hits, scanned, enqueued, queried, done, scannedAt0, hitsAt0,
                   prevEnd, prevMode, net, dbres>>
    /\ UNCHANGED <<authvars, params>>

ExpandNext == expand

ExpandSpec == ExpandInit /\ [][ExpandNext]_vars

(***************************************************************************)
(* The storage functions on their own: any sequence of calls.              *)
(***************************************************************************)
DbRecords ==
    {[ipaddress |-> "a", listed |-> "t1", rule |-> r, seen |-> sn] :
        r \in {"r1", "r2"}, sn \in {"t1", "t2"}}
    \cup {[ipaddress |-> "a", listed |-> "t1", seen |-> sn] : sn \in {"t1", "t2"}}

DbBatches ==
    UNION {[1..n -> {setdefault(h) : h \in DbRecords}] : n \in 0..MaxBatch}

DbCidrs == {<<0, 24>>, <<256, 24>>}

db_insert_hits(hs) ==
    /\ Len(hits) + Len(hs) <= MaxRows
    /\ LET r == insert_hits(hits, hs)
       IN  /\ hits' = r.tbl
           /\ dbres' = [op |-> "insert_hits", raised |-> None,
                        count |-> r.count, before |-> Len(hits), arg |-> hs]
    /\ UNCHANGED <<targets, run, mode, phase, endedBy, exitCode, session, ppc,
                   pidx, queue, sem, db_lock, wpc, wcur, wresp, rate_limited, wrows,
                   scanned, enqueued, queried, done, scannedAt0, hitsAt0,
                   prevEnd, prevMode, net, subs>>
    /\ UNCHANGED <<authvars, params>>

db_mark_as_scanned(cidr, timestamp) ==
    /\ LET r == mark_as_scanned(scanned, cidr, timestamp)
       IN  /\ scanned' = r.tbl
           /\ dbres' = [op |-> "mark_as_scanned", raised |-> r.raised,
                        count |-> 0, before |-> Len(scanned), arg |-> cidr]
    /\ UNCHANGED <<targets, run, mode, phase, endedBy, exitCode, session, ppc,
                   pidx, queue, sem, db_lock, wpc, wcur, wresp, rate_limited, wrows,
                   hits, enqueued, queried, done, scannedAt0, hitsAt0,
                   prevEnd, prevMode, net, subs>>
    /\ UNCHANGED <<authvars, params>>

DbNext ==
    \/ \E hs \in DbBatches : db_insert_hits(hs)
    \/ \E cidr \in DbCidrs : \E t \in 1..MaxRuns : db_mark_as_scanned(cidr, t)

DbInit ==
    /\ PipelineInit
    /\ net = Blank
    /\ subs = <<>>
    /\ dbres = NoCall
    /\ ClientInit
    /\ params = MainParams

DbSpec == DbInit /\ [][DbNext]_vars

(***************************************************************************)
(* One live scan of a one-line target file.  The lines are 203.0.113.0/22  *)
(* and 203.0.112.0/22 with the first octet left out: no prefix of length 8 *)
(* or more reaches into it, so it plays no part in parsing or splitting.   *)
(***************************************************************************)
HostBitsSlash22 == Cidr(113 * 256, 22)
AlignedSlash22 == Cidr(112 * 256, 22)

OneLineFiles == { <<HostBitsSlash22>>, <<AlignedSlash22>> }

OneLineInit ==
    /\ targets \in OneLineFiles
    /\ run = 1
    /\ Fresh
    /\ queried = [b \in BlockSet(targets) |-> 0]
    /\ hits = <<>>
    /\ scanned = <<>>
    /\ scannedAt0 = <<>>
    /\ hitsAt0 = <<>>
    /\ prevEnd = "none"
    /\ prevMode = None
    /\ net = Blank
    /\ subs = <<>>
    /\ dbres = NoCall
    /\ Authenticated
    /\ params = FullParams

LiveScan ==
    \/ run_scan_start("live")
    \/ run_scan_end
    \/ live_producer_lock
    \/ live_producer_check
    \/ live_producer_stop
    \/ \E w \in Workers : worker_get(w)
    \/ \E w \in Workers : \E reply \in Replies : worker_reply(w, reply)
    \/ \E w \in Workers : worker_insert_lock(w)
    \/ \E w \in Workers : live_worker_insert(w)
    \/ \E w \in Workers : live_worker_mark_lock(w)
    \/ \E w \in Workers : live_worker_mark(w)

OneLineSpec == OneLineInit /\ [][LiveScan]_vars

(***************************************************************************)
(* One live scan during which the token runs out: the requests are         *)
(* answered 200, or 401 or 403.                                            *)
(***************************************************************************)
ExpiryReplies == {r \in Replies : r.status \in {"200", "401", "403"}}

ExpiryInit ==
    /\ targets = <<Comment, Cidr(0, 23)>>
    /\ run = 1
    /\ Fresh
    /\ queried = [b \in BlockSet(targets) |-> 0]
    /\ hits = <<>>
    /\ scanned = <<>>
    /\ scannedAt0 = <<>>
    /\ hitsAt0 = <<>>
    /\ prevEnd = "none"
    /\ prevMode = None
    /\ net = Blank
    /\ subs = <<>>
    /\ dbres = NoCall
    /\ Authenticated
    /\ params = FullParams

ExpiryScan ==
    \/ run_scan_start("live")
    \/ run_scan_end
    \/ live_producer_lock
    \/ live_producer_check
    \/ live_producer_stop
    \/ \E w \in Workers : worker_get(w)
    \/ \E w \in Workers : \E reply \in ExpiryReplies : worker_reply(w, reply)
    \/ \E w \in Workers : worker_insert_lock(w)
    \/ \E w \in Workers : live_worker_insert(w)
    \/ \E w \in Workers : live_worker_mark_lock(w)
    \/ \E w \in Workers : live_worker_mark(w)

ExpirySpec == ExpiryInit /\ [][ExpiryScan]_vars

(***************************************************************************)
(* Authentication (client.py 27-62) and the start of main_async            *)
(* (main.py 52-60): check_limits_sync, which authenticates first, runs     *)
(* before the collector is made and run_scan is called.                    *)
(***************************************************************************)
Margin == 60        \* the safety margin of initial_auth, in seconds

\* data.get(key, default)
get(data, key, default) == IF key \in DOMAIN data THEN data[key] ELSE default

\* an authentication that trusts a token up to its very last second
initial_auth_no_margin(file, now, reply) ==
    IF file.kind = "json" /\ now < get(file.data, "expires", 0)
    THEN [token |-> get(file.data, "token", None), file |-> file,
          logins |-> 0, writes |-> 0, exit |-> 0]
    ELSE IF reply.status = "200"
    THEN [token |-> get(reply.body, "token", None),
          file |-> JsonFile([token |-> get(reply.body, "token", None),
                             expires |-> get(reply.body, "expires", 0)]),
          logins |-> 1, writes |-> 1, exit |-> 0]
    ELSE [token |-> None, file |-> file, logins |-> 1, writes |-> 0, exit |-> 1]

\* an authentication that logs a failed login and returns
initial_auth_failure_returns(file, now, reply) ==
    IF file.kind = "json" /\ now < get(file.data, "expires", 0) - Margin
    THEN [token |-> get(file.data, "token", None), file |-> file,
          logins |-> 0, writes |-> 0, exit |-> 0]
    ELSE IF reply.status = "200"
    THEN [token |-> get(reply.body, "token", None),
          file |-> JsonFile([token |-> get(reply.body, "token", None),
                             expires |-> get(reply.body, "expires", 0)]),
          logins |-> 1, writes |-> 1, exit |-> 0]
    ELSE [token |-> None, file |-> file, logins |-> 1, writes |-> 0, exit |-> 0]

\* AsyncSiaClient.initial_auth with the token file as found, time.time()
\* and the reply a login request would get: client.token and the token
\* file afterwards, the login requests and file writes made, and the
\* status of sys.exit (0: the method returned)
initial_auth(file, now, reply) ==
    IF file.kind = "json" /\ now < get(file.data, "expires", 0) - Margin
    THEN [token |-> get(file.data, "token", None), file |-> file,
          logins |-> 0, writes |-> 0, exit |-> 0]
    ELSE IF reply.status = "200"
    THEN [token |-> get(reply.body, "token", None),
          file |-> JsonFile([token |-> get(reply.body, "token", None),
                             expires |-> get(reply.body, "expires", 0)]),
          logins |-> 1, writes |-> 1, exit |-> 0]
    ELSE [token |-> None, file |-> file, logins |-> 1, writes |-> 0, exit |-> 1]

\* times of day the program is started at
Clocks == {100, 101}

\* token files: none, one that is not JSON, and objects whose expiry lies
\* in the past, at the clock, around the margin and far ahead, or that
\* lack a key
TokenFiles ==
    {AbsentFile, GarbageFile}
    \cup {JsonFile([token |-> "old", expires |-> e]) :
             e \in {0, 100, 159, 160, 161, 162, 300}}
    \cup {JsonFile([token |-> "old"]), JsonFile([expires |-> 300])}

\* replies to POST /api/v1/login: 200 with a token (the expiry possibly
\* missing), other statuses, and a requests.exceptions.RequestException
LoginReplies ==
    {[status |-> "200", body |-> [token |-> "new", expires |-> 3700]],
     [status |-> "200", body |-> [token |-> "new"]]}
    \cup {[status |-> st, body |-> NoResponse] :
             st \in {"401", "403", "500", "RequestException"}}

\* targets of the runs that start at main_async
MainTargets == { <<Cidr(0, 24)>> }

MainInit ==
    /\ targets \in MainTargets
    /\ run = 1
    /\ mode = None
    /\ phase = "main"
    /\ endedBy = "none"
    /\ exitCode = -1
    /\ session = "none"
    /\ ppc = "idle"
    /\ pidx = 1
    /\ queue = <<>>
    /\ sem = W
    /\ db_lock = {}
    /\ wpc = [w \in Workers |-> "idle"]
    /\ wcur = [w \in Workers |-> NoneItem]
    /\ wresp = [w \in Workers |-> NoResponse]
    /\ rate_limited = FALSE
    /\ wrows = [w \in Workers |-> 0]
    /\ enqueued = <<>>
    /\ done = {}
    /\ queried = [b \in BlockSet(targets) |-> 0]
    /\ hits = <<>>
    /\ scanned = <<>>
    /\ scannedAt0 = <<>>
    /\ hitsAt0 = <<>>
    /\ prevEnd = "none"
    /\ prevMode = None
    /\ net = Blank
    /\ subs = <<>>
    /\ dbres = NoCall
    /\ token_file \in TokenFiles
    /\ clock \in Clocks
    /\ token = None
    /\ logins = 0
    /\ token_writes = 0
    /\ login = NoLogin
    /\ params = MainParams

\* main_async 53-58: the client is made, check_limits_sync authenticates
\* (client.token is still None) and asks for the limits, whose answer
\* changes nothing; a sys.exit in initial_auth ends the process before the
\* collector exists
main_check_limits(reply) ==
    /\ phase = "main"
    /\ LET r == initial_auth(token_file, clock, reply)
       IN  /\ token' = r.token
           /\ token_file' = r.file
           /\ logins' = logins + r.logins
           /\ token_writes' = token_writes + r.writes
           /\ login' = IF r.logins = 1 THEN reply ELSE login
           /\ IF r.exit # 0
              THEN /\ phase' = "left"
                   /\ endedBy' = "auth"
                   /\ exitCode' = r.exit
              ELSE /\ phase' = "created"
                   /\ UNCHANGED <<endedBy, exitCode>>
    /\ UNCHANGED <<mode, session, ppc, pidx, queue, sem, db_lock, wpc, wcur,
                   wresp, rate_limited, wrows, hits, scanned, enqueued,
                   queried, done, clock, net, subs, dbres, params>>
    /\ UNCHANGED runvars

\* one run of the scan as main_async starts it.  Its query_params lack
\* 'type', so the first call to get_cidr_listings of every worker raises
\* TypeError and the steps that follow an answer are never reached.
Scan ==
    \/ \E m \in {"live", "history"} : run_scan_start(m)
    \/ run_scan_end
    \/ live_producer_lock
    \/ live_producer_check
    \/ live_producer_stop
    \/ history_producer
    \/ \E w \in Workers : worker_get(w)

MainNext ==
    \/ \E reply \in LoginReplies : main_check_limits(reply)
    \/ Scan

MainSpec == MainInit /\ [][MainNext]_vars

(***************************************************************************)
(* Properties.                                                             *)
(***************************************************************************)
InFlight == {w \in Workers : wpc[w] = "inflight"}

\* workers inside "async with self.semaphore"
Holders ==
    {w \in Workers : wpc[w] \in {"inflight", "insert", "inserting", "mark", "marking"}}

\* statuses get_cidr_listings turns into "no data": logged, None returned
Transient == {r.status : r \in {x \in Replies : get_cidr_listings(x) = NoResponse}}

\* C1: a started scan always comes to its end: under fair scheduling the
\* workers all leave their loops and run_scan is left; no worker waits on
\* queue.get() for ever.
C1_ScanTerminates == (phase = "gather") ~> (phase = "left")

\* C2: while a scan runs, at most W workers are between sending a request
\* and its answer, and every worker inside the semaphore block accounts
\* for exactly one permit of the W.
C2_AtMostWInFlight ==
    phase = "gather" =>
        /\ Cardinality(InFlight) <= W
        /\ InFlight \subseteq Holders
        /\ sem >= 0
        /\ sem = W - Cardinality(Holders)

C2_Witness ==
    /\ phase = "gather"
    /\ Cardinality(InFlight) = W
    /\ sem = 0

\* C3: once a worker's request has been answered 429 the process is over
\* with exit status 1, and no request is started in that run any more.
C3_NoRequestAfter429 ==
    [][rate_limited =>
          /\ phase = "left" /\ exitCode = 1
          /\ phase' = "left" => (queried' = queried /\ queue' = queue)]_vars

C3_Witness ==
    /\ endedBy = "429"
    /\ exitCode = 1
    /\ rate_limited
    /\ Cardinality({w \in Workers : wpc[w] = "cancelled" /\ wcur[w] # NoneItem}) = W

\* C4: in a live scan, every block whose request ended in a transient
\* error and whose loop iteration the worker finished is in scanned_cidrs,
\* and that worker inserted no match row for it.
C4_TransientStillMarked ==
    mode = "live" =>
        \A d \in done :
            d[2] = NoResponse => check_if_scanned(scanned, d[1]) /\ d[3] = 0

C4_Witness ==
    /\ mode = "live"
    /\ endedBy = "normal"
    /\ \E d \in done : d[2] = NoResponse

\* C5: a live scan that follows a live scan which ran to completion, on the
\* same targets and database, enqueues no block, starts no request, and
\* leaves scanned_cidrs and hits as it found them.
C5_SecondLiveScanIdle ==
    (run >= 2 /\ prevMode = "live" /\ prevEnd = "normal" /\ mode = "live") =>
        /\ enqueued = <<>>
        /\ \A b \in DOMAIN queried : queried[b] = 0
        /\ scanned = scannedAt0
        /\ hits = hitsAt0

C5_Witness ==
    /\ run >= 2 /\ prevMode = "live" /\ prevEnd = "normal" /\ mode = "live"
    /\ endedBy = "normal"
    /\ Len(scanned) >= 2
    /\ hits # <<>>

\* C6: a mark_as_scanned call for a block that is already in scanned_cidrs
\* raises nothing and leaves one row for the block.
C6_SecondMarkTolerated ==
    dbres.op = "mark_as_scanned" =>
        /\ dbres.raised = None
        /\ Cardinality({i \in DOMAIN scanned : scanned[i].cidr = dbres.arg}) = 1

\* C7: hits never holds two rows with the same (ipaddress, listed, rule).
C7_HitsKeyUnique ==
    \A i, j \in DOMAIN hits :
        (/\ hits[i].ipaddress = hits[j].ipaddress
         /\ hits[i].listed = hits[j].listed
         /\ hits[i].rule = hits[j].rule) => i = j

\* C8: no error raised while a block is processed ends a worker, and no
\* run ends through such an error.
C8_ErrorsStayInWorker ==
    /\ \A w \in Workers : wpc[w] # "failed"
    /\ endedBy # "error"

\* C9: whenever run_scan has been left, on whichever path, the session it
\* created is closed.
C9_SessionClosedOnExit == phase = "left" => session = "closed"

C9_Witness ==
    /\ phase = "left"
    /\ endedBy = "error"
    /\ session = "closed"

\* C10: a valid block shorter than /24 expands to 2^(24 - p) sub-blocks of
\* length 24, each inside the block, and every address of the block lies
\* in exactly one of them.
C10_ExpansionPartitions ==
    (ip_network(net) # ValueError /\ net.plen < G /\ subs # <<>>) =>
        /\ Len(subs) = Pow2(G - net.plen)
        /\ \A i \in DOMAIN subs :
              /\ subs[i][2] = G
              /\ Addresses([addr |-> subs[i][1], plen |-> subs[i][2]])
                    \subseteq Addresses(ip_network(net))
        /\ \A a \in Addresses(ip_network(net)) :
              Cardinality({i \in DOMAIN subs :
                  a \in Addresses([addr |-> subs[i][1], plen |-> subs[i][2]])}) = 1

C10_Witness ==
    /\ ip_network(net) # ValueError
    /\ net.plen = G - MaxSpan
    /\ net.addr > 0
    /\ Len(subs) = Pow2(MaxSpan)

\* C11: a valid block of prefix length 24 or more expands to the
\* one-element sequence holding that very block.
C11_FineBlockUnchanged ==
    [][(ip_network(net) # ValueError /\ net.plen >= G) =>
           subs' = << <<net.addr, net.plen>> >>]_vars

C11_Witness ==
    /\ ip_network(net) # ValueError
    /\ net.plen > G
    /\ net.addr > 0
    /\ subs = << <<net.addr, net.plen>> >>

\* the blocks a line of the target file stands for: none unless the line
\* is a well-formed network; its /24 blocks when it is shorter than /24,
\* itself otherwise
Contributes(line, b) ==
    /\ line.kind = "cidr"
    /\ line.addr % Pow2(MaxPrefixLen - line.plen) = 0
    /\ IF line.plen < G
       THEN /\ b[2] = G
            /\ b[1] % Pow2(MaxPrefixLen - G) = 0
            /\ b[1] >= line.addr
            /\ b[1] < line.addr + Pow2(MaxPrefixLen - line.plen)
       ELSE b = <<line.addr, line.plen>>

\* lines of the target file that stand for block b
LinesOf(b) == {i \in DOMAIN targets : Contributes(targets[i], b)}

\* times block b has been put on the queue in this run
Enqueued(b) == {i \in DOMAIN enqueued : enqueued[i] = b}

CandidateBlocks == {<<128 * k, p>> : k \in 0..7, p \in {G, G + 1}}

C13_TokenReuse ==
    [][phase = "main" =>
         IF /\ token_file.kind = "json"
            /\ "expires" \in DOMAIN token_file.data
            /\ token_file.data.expires - clock > 60
         THEN /\ logins' = logins
              /\ token_writes' = token_writes
              /\ token_file' = token_file
              /\ token' = get(token_file.data, "token", None)
              /\ phase' = "created"
         ELSE /\ logins' = logins + 1
              /\ login'.status = "200" =>
                    /\ token_writes' = token_writes + 1
                    /\ token_file'.kind = "json"
                    /\ token_file'.data.token = login'.body.token
                    /\ token_file'.data.expires = get(login'.body, "expires", 0)
                    /\ token' = login'.body.token
                    /\ phase' = "created"]_vars

C13_Witness ==
    /\ phase = "created"
    /\ logins = 1
    /\ token_writes = 1
    /\ token = "new"
    /\ token_file = JsonFile([token |-> "new", expires |-> 3700])
    /\ clock = 100

\* C14: once a login request has been answered with anything but 200, or
\* has failed in the network, the process is over with a non-zero exit
\* status: one login request was sent, the token file was not written, no
\* session was created and no block was queried.
C14_LoginFailureFatal ==
    login.status \notin {"none", "200"} =>
        /\ phase = "left"
        /\ exitCode > 0
        /\ logins = 1
        /\ token_writes = 0
        /\ session = "none"
        /\ \A b \in DOMAIN queried : queried[b] = 0

C14_Witness ==
    /\ login.status = "RequestException"
    /\ phase = "left"
    /\ exitCode = 1
    /\ token_file = JsonFile([token |-> "old", expires |-> 160])

\* C15: a historical scan neither reads nor writes the scan cache:
\* scanned_cidrs stays as the run found it, and the producer enqueues
\* every block of every valid line, once per line, also the blocks that
\* scanned_cidrs holds.
C15_HistoryBypassesCache ==
    mode = "history" =>
        /\ scanned = scannedAt0
        /\ (ppc = "done" /\ endedBy # "interrupt") =>
              \A b \in CandidateBlocks :
                  Cardinality(Enqueued(b)) = Cardinality(LinesOf(b))

C15_Witness ==
    /\ mode = "history"
    /\ ppc = "done"
    /\ endedBy = "error"
    /\ Len(scanned) >= 2
    /\ \A i \in DOMAIN scanned : Cardinality(Enqueued(scanned[i].cidr)) = 1

\* the four /24 blocks of 203.0.112.0/22, in address order
Slash22Blocks == [i \in 1..4 |-> <<(111 + i) * 256, G>>]

\* C16 as stated: with 203.0.113.0/22 as the only line and an empty scan
\* cache, the producer of a live scan enqueues exactly 4 blocks of length
\* 24, and after a run that ended without error scanned_cidrs holds 4.
C16_Slash22Example ==
    (targets = <<HostBitsSlash22>> /\ mode = "live") =>
        /\ ppc = "done" =>
              /\ Len(enqueued) = 4
              /\ \A i \in DOMAIN enqueued : enqueued[i][2] = G
        /\ endedBy = "normal" => Len(scanned) = 4

\* C16, amended: with 203.0.112.0/22 as the only line and an empty scan
\* cache, the producer of a live scan enqueues exactly the 4 blocks
\* 203.0.112.0/24 .. 203.0.115.0/24, and after a run that ended without
\* error scanned_cidrs holds exactly these 4.
C16_AlignedSlash22 ==
    (targets = <<AlignedSlash22>> /\ mode = "live") =>
        /\ ppc = "done" => enqueued = Slash22Blocks
        /\ endedBy = "normal" =>
              /\ Len(scanned) = 4
              /\ \A i \in 1..4 : \E j \in DOMAIN scanned :
                    scanned[j].cidr = Slash22Blocks[i]

C16_Witness ==
    /\ targets = <<AlignedSlash22>>
    /\ mode = "live"
    /\ endedBy = "normal"
    /\ enqueued = Slash22Blocks
    /\ Len(scanned) = 4
    /\ hits # <<>>

\* C17: in one live scan no block is queried more than once, whatever the
\* target list, also when a block stands on several lines.
C17_QueriedAtMostOnce ==
    mode = "live" => \A b \in DOMAIN queried : queried[b] <= 1

\* C18: the value insert_hits returns is the number of rows the call added
\* to hits; records skipped as already stored, or as repeats within the
\* batch, are not counted.
C18_CountIsRowsInserted ==
    dbres.op = "insert_hits" => dbres.count = Len(hits) - dbres.before

\* C19: a historical scan has a table history_hits to store into and
\* never changes hits; a live scan has the table hits.
C19_SeparateTables ==
    /\ mode = "history" => ("history_hits" \in Tables /\ hits = hitsAt0)
    /\ mode = "live" => "hits" \in Tables

\* responses without a match: the body made for a 404, and a 200 body
\* with no results key or with an empty results list
EmptyResponses ==
    {[code |-> 404, results |-> <<>>], [code |-> 200],
     [code |-> 200, results |-> <<>>]}

\* C20: in a live scan a 404 and a 200 without results are treated alike:
\* the worker does not go to insert_hits, and once it has finished the
\* block the block is in scanned_cidrs, no row was added for it and the
\* worker is back at the queue.
C20_NotFoundLikeEmpty ==
    mode = "live" =>
        /\ \A w \in Workers :
              wresp[w] \in EmptyResponses => wpc[w] \notin {"insert", "inserting"}
        /\ \A d \in done :
              d[2] \in EmptyResponses =>
                  check_if_scanned(scanned, d[1]) /\ d[3] = 0

C20_Witness ==
    /\ mode = "live"
    /\ endedBy = "normal"
    /\ \E d \in done : d[2] = [code |-> 404, results |-> <<>>]
    /\ \E d \in done : d[2] = [code |-> 200, results |-> <<>>]

\* stop markers on the queue
Markers(q) == {i \in DOMAIN q : q[i] = NoneItem}

\* C21: the step with which the producer finishes, having gone through the
\* whole target list, puts exactly W stop markers on the queue, whatever
\* the workers are doing at that moment.
C21_WStopMarkers ==
    [][(ppc # "done" /\ ppc' = "done") =>
          Cardinality(Markers(queue')) = Cardinality(Markers(queue)) + W]_vars

\* the records of a response have their rows in hits
Stored(response) ==
    \A i \in DOMAIN response.results :
        \E j \in DOMAIN hits :
            /\ hits[j].ipaddress = response.results[i].ipaddress
            /\ hits[j].listed = response.results[i].listed
            /\ hits[j].rule = response.results[i].rule

\* the workers whose request for block b is unanswered, or whose matches
\* for b are not yet written
Pending(b) ==
    {w \in Workers : wcur[w] = b /\ wpc[w] \in {"inflight", "insert", "inserting"}}

\* C22: in a live scan a row enters scanned_cidrs only through a worker
\* whose request for the block has been answered (with data, without, or
\* with a transient error) and, when the answer carried matches, after
\* those matches were written to hits; and at that moment no request and
\* no match write for the block is pending.
C22_MarkAfterQueryAndWrite ==
    [][\A j \in DOMAIN scanned' :
          j \notin DOMAIN scanned =>
              /\ \E w \in Workers :
                    /\ mode = "live"
                    /\ wcur[w] = scanned'[j].cidr
                    /\ w \notin Pending(scanned'[j].cidr)
                    /\ (/\ wresp[w] # NoResponse
                        /\ "results" \in DOMAIN wresp[w]
                        /\ wresp[w].results # <<>>) => Stored(wresp[w])
              /\ Pending(scanned'[j].cidr) = {}]_vars

\* C23: while a worker stands between its insert_hits and its
\* mark_as_scanned for a block, no other task does a database operation
\* under the lock: hits and scanned_cidrs stay as they are and the
\* producer makes no check_if_scanned.
C23_LockGuardsSequence ==
    [][\A w \in Workers :
          (/\ mode = "live"
           /\ wpc[w] = "mark"
           /\ wrows[w] > 0
           /\ wpc'[w] = "mark") =>
              (hits' = hits /\ scanned' = scanned /\ pidx' = pidx)]_vars

\* C24: from create_session to close_session the token, the token file
\* and the number of login requests stay as they are, and a request
\* answered 401 or 403 ends neither a worker nor the run: the block is
\* finished like any block without data, marked scanned with no row
\* written.
C24_TokenFixedAuthFailureTransient ==
    [][/\ phase = "gather" =>
            (token' = token /\ logins' = logins /\ token_file' = token_file)
       /\ \A w \in Workers : wpc'[w] \notin {"failed", "cancelled"}
       /\ endedBy' \in {"none", "normal"}
       /\ \A d \in done' :
             d[2] = NoResponse => check_if_scanned(scanned', d[1]) /\ d[3] = 0]_vars

C24_Witness ==
    /\ endedBy = "normal"
    /\ session = "closed"
    /\ token = "old"
    /\ logins = 0
    /\ \E d \in done : d[2] = NoResponse
    /\ \E d \in done : d[2] # NoResponse

\* C25: through every step of every run, live or historical, and from one
\* run to the next, each row of scanned_cidrs stays where and as it is:
\* blocks are only added, and no scanned_at changes.
C25_CacheAppendOnly ==
    [][/\ Len(scanned') >= Len(scanned)
       /\ \A i \in DOMAIN scanned : scanned'[i] = scanned[i]]_vars

C25_Witness ==
    /\ run >= 2
    /\ Len(scanned) >= 2
    /\ \E i, j \in DOMAIN scanned : scanned[i].scanned_at < scanned[j].scanned_at

\* C26: when a scan has ended with every worker gone through its stop
\* marker, the queue holds stop markers and nothing else, no worker holds
\* a block, and every block was taken off the queue as often as the
\* producer put it there and was finished by a worker.
C26_NoItemLost ==
    endedBy = "normal" =>
        /\ queue # <<>>
        /\ \A i \in DOMAIN queue : queue[i] = NoneItem
        /\ \A w \in Workers : wcur[w] = NoneItem
        /\ \A b \in DOMAIN queried :
              /\ queried[b] = Cardinality(Enqueued(b))
              /\ queried[b] <= 1
              /\ Enqueued(b) # {} => \E d \in done : d[1] = b

C26_Witness ==
    /\ endedBy = "normal"
    /\ Len(enqueued) >= 2
    /\ Cardinality(Markers(queue)) < W

\* C27: at and after a 429 no row enters scanned_cidrs in that run; the
\* block of the request that got the 429, and the block of every request
\* cut off by it, is not in scanned_cidrs; and a live run that follows
\* enqueues every block scanned_cidrs does not hold.
C27_RateLimitedBlocksRetried ==
    [][/\ rate_limited' => scanned' = scanned
       /\ endedBy' = "429" =>
             \A w \in Workers :
                 (wpc'[w] = "cancelled" /\ wcur'[w] # NoneItem) =>
                     ~ check_if_scanned(scanned', wcur'[w])
       /\ (/\ run' >= 2 /\ prevEnd' = "429" /\ mode' = "live"
           /\ ppc' = "done" /\ endedBy' # "interrupt") =>
             \A b \in CandidateBlocks :
                 (/\ \E i \in DOMAIN targets : Contributes(targets[i], b)
                  /\ ~ check_if_scanned(scannedAt0', b)) =>
                     \E i \in DOMAIN enqueued' : enqueued'[i] = b]_vars

====
